---- MODULE Spec2Model ----
(***************************************************************************)
(* Biology Learning API: the chapter / quiz-question endpoints of          *)
(* src/main.py over the two collections "chapter" and "quizquestion",      *)
(* with the entity schemas of src/schemas.py.                              *)
(*                                                                         *)
(* Strings that the code parses (identifiers) are sequences of one-        *)
(* character strings; JSON / BSON values carry their type in a tag t.      *)
(***************************************************************************)
EXTENDS Integers, Sequences, FiniteSets, TLC

(***************************************************************************)
(* Bounds of the model.                                                    *)
(***************************************************************************)
\* successful create_chapter calls in one run
MaxCreates == 1
\* successful add_quiz_questions calls in one run
MaxAdds == 1
\* questions in one add_quiz_questions payload
MaxBatch == 5
\* calls in one run in which an insert raises
MaxFaults == 1

(***************************************************************************)
(* Program constants.                                                      *)
(***************************************************************************)
\* the target question count of seed_sample (the literal 20)
TargetCount == 20
\* length of the literal list `questions` of seed_sample
NumSeedQuestions == 22
\* length of the hexadecimal form of a bson ObjectId
OidStrLen == 24

(***************************************************************************)
(* bson.ObjectId: a 12-byte value, here the natural number it encodes.     *)
(* str(oid) is its 24-digit lower-case hexadecimal form; ObjectId(s)       *)
(* accepts exactly the 24-character strings of hexadecimal digits, in      *)
(* either case, and raises InvalidId for every other string.               *)
(***************************************************************************)
HexLower == <<"0", "1", "2", "3", "4", "5", "6", "7", "8", "9", "a", "b", "c", "d", "e", "f">>

HexUpper == <<"0", "1", "2", "3", "4", "5", "6", "7", "8", "9", "A", "B", "C", "D", "E", "F">>

HexChars == {HexLower[i] : i \in 1..16} \cup {HexUpper[i] : i \in 1..16}

HexVal(c) == CHOOSE v \in 0..15 : HexLower[v + 1] = c \/ HexUpper[v + 1] = c

\* digit k, counted from the right and from 0, of n in base 16
RECURSIVE HexDigit(_, _)
HexDigit(n, k) == IF k = 0 \/ n = 0 THEN n % 16 ELSE HexDigit(n \div 16, k - 1)

\* n in hexadecimal, padded with zeros to len digits
ToHex(n, len) == [i \in 1..len |-> HexLower[HexDigit(n, len - i) + 1]]

\* the number the first k hexadecimal digits of s encode
RECURSIVE FromHex(_, _)
FromHex(s, k) ==
    IF k = 0 THEN 0
    ELSE 16 * FromHex(s, k - 1) + HexVal(s[k])

\* str(ObjectId)
StrOid(oid) == ToHex(oid, OidStrLen)

\* mutant: the length is not checked
ObjectIdValid_AnyLength(s) == \A i \in 1..Len(s) : s[i] \in HexChars

\* ObjectId(s) does not raise
ObjectIdValid(s) == Len(s) = OidStrLen /\ \A i \in 1..Len(s) : s[i] \in HexChars

\* ObjectId(s), for a string it accepts
ObjectId(s) == FromHex(s, Len(s))

\* str.upper(), on the characters an identifier can hold
Upper(s) == [i \in 1..Len(s) |-> IF s[i] \in HexChars THEN HexUpper[HexVal(s[i]) + 1] ELSE s[i]]

(***************************************************************************)
(* JSON / BSON values.                                                     *)
(***************************************************************************)
JInt(n) == [t |-> "int", int |-> n]

JStr(s) == [t |-> "str", str |-> s]

JList(l) == [t |-> "list", list |-> l]

JNull == [t |-> "null"]

(***************************************************************************)
(* Request validation of POST /api/chapters (ChapterCreate), then the      *)
(* Chapter schema.  A body is a record of the fields it holds.             *)
(***************************************************************************)
HasType(body, f, ty) == f \in DOMAIN body /\ body[f].t = ty

\* ChapterCreate(**body) succeeds
ChapterCreateValid(body) ==
    /\ HasType(body, "number", "int")
    /\ HasType(body, "title", "str")
    /\ HasType(body, "summary", "str")
    /\ "objectives" \in DOMAIN body => body.objectives.t = "list"
    /\ "reference" \in DOMAIN body => body.reference.t \in {"str", "null"}
    /\ "sections" \in DOMAIN body => body.sections.t = "list"

Field(body, f, default) == IF f \in DOMAIN body THEN body[f] ELSE default

\* ChapterCreate(**body).model_dump(): every field, defaults filled in
ChapterCreate(body) ==
    [number |-> body.number,
     title |-> body.title,
     summary |-> body.summary,
     objectives |-> Field(body, "objectives", JList(<<>>)),
     reference |-> Field(body, "reference", JNull),
     sections |-> Field(body, "sections", JList(<<>>))]

\* Chapter(**fields) succeeds: number has ge=1
ChapterValid(fields) == fields.number.int >= 1

\* Chapter(**fields).model_dump()
Chapter(fields) ==
    [number |-> fields.number,
     title |-> fields.title,
     summary |-> fields.summary,
     objectives |-> fields.objectives,
     reference |-> fields.reference,
     sections |-> fields.sections]

(***************************************************************************)
(* State.                                                                  *)
(***************************************************************************)
VARIABLES
    dbAvail,        \* the handle db is not None
    chapter,        \* collection "chapter", in insertion order
    quizquestion,   \* collection "quizquestion", in insertion order
    nextOid,        \* the identifier the store assigns next
    resp,           \* the last request and its HTTP response
    numCreates,     \* successful create_chapter calls so far
    numAdds,        \* successful add_quiz_questions calls so far
    seedChapters,   \* chapters inserted by seed_sample so far
    created,        \* the request body and the returned id of each successful create_chapter
    faults,         \* calls so far in which an insert raised
    seedCall        \* the seed_sample calls in progress: each one's position and locals

vars == <<dbAvail, chapter, quizquestion, nextOid, resp, numCreates, numAdds, seedChapters, created,
          faults, seedCall>>

store == <<chapter, quizquestion, nextOid>>

counters == <<numCreates, numAdds, seedChapters, created, faults, seedCall>>

Response(op, req, status, body) == [op |-> op, req |-> req, status |-> status, body |-> body]

(***************************************************************************)
(* Document store gateway and driver.                                      *)
(***************************************************************************)
\* collection.insert_one(data): the store assigns _id
InsertOne(coll, data, oid) == Append(coll, [_id |-> oid] @@ data)

\* create_document(collection, data): the collection afterwards and the new
\* identifier as a string
create_document(coll, data, oid) == [coll |-> InsertOne(coll, data, oid), id |-> StrOid(oid)]

\* cursor.limit(limit); None is no limit
NoLimit == -1

Limited(docs, limit) ==
    IF limit = NoLimit \/ limit >= Len(docs) THEN docs ELSE SubSeq(docs, 1, limit)

\* collection.find_one(filter), given the matching documents in the store's
\* order: the first match, or None (the empty sequence)
FindOne(matches) == IF matches = <<>> THEN <<>> ELSE <<matches[1]>>

\* mutant: the filter is dropped, the first document is the answer
FindById_First(coll, oid) == IF coll = <<>> THEN <<>> ELSE <<coll[1]>>

\* collection.find_one({"_id": oid})
FindById(coll, oid) == LET Match(d) == d._id = oid IN FindOne(SelectSeq(coll, Match))

\* mutant: the filter is dropped, every question counts
CountByChapter_NoFilter(coll, cid) == Len(coll)

\* collection.count_documents({"chapter_id": cid})
CountByChapter(coll, cid) == LET Match(d) == d.chapter_id = cid IN Len(SelectSeq(coll, Match))

\* get_documents(collection, filter, limit) with the filter {"chapter_id": cid}
get_documents_by_chapter(coll, cid, limit) ==
    LET Match(d) == d.chapter_id = cid IN Limited(SelectSeq(coll, Match), limit)

\* get_documents(collection, {}, None)
get_documents_all(coll) == Limited(coll, NoLimit)

\* mutant: the new documents take the place of the stored ones
create_documents_Replace(coll, datas, oid) ==
    [coll |-> [i \in 1..Len(datas) |-> [_id |-> oid + i - 1] @@ datas[i]],
     ids |-> [i \in 1..Len(datas) |-> StrOid(oid + i - 1)]]

\* create_document for each entry of datas in turn, from identifier oid on:
\* the collection afterwards and the new identifiers
create_documents(coll, datas, oid) ==
    LET one(i) == create_document(<<>>, datas[i], oid + i - 1)
    IN [coll |-> coll \o [i \in 1..Len(datas) |-> one(i).coll[1]],
        ids |-> [i \in 1..Len(datas) |-> one(i).id]]

\* mutant: the document is returned as stored
to_str_id_Raw(doc) == doc

\* to_str_id(doc): _id renamed to id, as a string
to_str_id(doc) ==
    IF "_id" \in DOMAIN doc
    THEN [f \in (DOMAIN doc \ {"_id"}) \cup {"id"} |-> IF f = "id" THEN StrOid(doc._id) ELSE doc[f]]
    ELSE doc

(***************************************************************************)
(* list.sort(key=lambda x: x.get("number", 0)): a stable sort.             *)
(***************************************************************************)
NumberKey(doc) == IF "number" \in DOMAIN doc THEN doc.number.int ELSE 0

\* mutant: x placed before the elements of equal key
InsertSorted_Strict(sorted, x) ==
    LET keep == {i \in 1..Len(sorted) : NumberKey(sorted[i]) < NumberKey(x)}
        k == Cardinality(keep)
    IN SubSeq(sorted, 1, k) \o <<x>> \o SubSeq(sorted, k + 1, Len(sorted))

\* x placed after every element whose key is not greater
InsertSorted(sorted, x) ==
    LET keep == {i \in 1..Len(sorted) : NumberKey(sorted[i]) <= NumberKey(x)}
        k == Cardinality(keep)
    IN SubSeq(sorted, 1, k) \o <<x>> \o SubSeq(sorted, k + 1, Len(sorted))

RECURSIVE SortByNumber(_)
SortByNumber(docs) ==
    IF docs = <<>> THEN <<>>
    ELSE InsertSorted(SortByNumber(SubSeq(docs, 1, Len(docs) - 1)), docs[Len(docs)])

(***************************************************************************)
(* The literal payloads of seed_sample.                                    *)
(***************************************************************************)
SeedObjectives == <<JStr("hierarki"), JStr("hipotesis"), JStr("energi"), JStr("umpan balik"), JStr("evolusi")>>

SeedSections == [i \in 1..7 |-> [t |-> "dict", dict |-> [title |-> "section", content |-> "content"]]]

SeedChapter ==
    Chapter([number |-> JInt(1),
             title |-> JStr("Tema Besar Biologi & Penyelidikan Ilmiah"),
             summary |-> JStr("Biologi mempelajari kehidupan ..."),
             objectives |-> JList(SeedObjectives),
             reference |-> JStr("Campbell Biology ed.11"),
             sections |-> JList(SeedSections)])

SeedTexts ==
    <<"q01", "q02", "q03", "q04", "q05", "q06", "q07", "q08", "q09", "q10", "q11",
      "q12", "q13", "q14", "q15", "q16", "q17", "q18", "q19", "q20", "q21", "q22">>

\* the literal list `questions`, each entry tagged with cid
SeedQuestions(cid) ==
    [i \in 1..NumSeedQuestions |->
        [chapter_id |-> cid, question |-> SeedTexts[i], options |-> <<"a", "b", "c", "d">>,
         correct_index |-> 1, explanation |-> "because", difficulty |-> "OSN-N"]]

Max(a, b) == IF a >= b THEN a ELSE b

Min(a, b) == IF a <= b THEN a ELSE b

\* questions[:n]
Prefix(list, n) == SubSeq(list, 1, Min(Max(n, 0), Len(list)))

(***************************************************************************)
(* Request inputs.                                                         *)
(***************************************************************************)
Section == [t |-> "dict", dict |-> [title |-> "Hierarki", content |-> "text"]]

FullBody(n) ==
    [number |-> JInt(n), title |-> JStr("T"), summary |-> JStr("S"),
     objectives |-> JList(<<JStr("o1"), JStr("o2")>>), reference |-> JStr("R"),
     sections |-> JList(<<Section>>)]

MinimalBody(n) == [number |-> JInt(n), title |-> JStr("T"), summary |-> JStr("S")]

ChapterBodies ==
    {FullBody(2), MinimalBody(1), MinimalBody(0)}
    \cup {[number |-> JInt(2), summary |-> JStr("S")],
          [number |-> JStr("two"), title |-> JStr("T"), summary |-> JStr("S")]}

TooShort == <<"1", "0">>

\* strings ObjectId() rejects: too short, 24 characters but not hexadecimal
Malformed == {TooShort, Append(ToHex(0, OidStrLen - 1), "g")}

\* the identifier the store assigns first, in lower and in upper case, and the next
IdA == StrOid(10)

IdAUpper == Upper(IdA)

IdB == StrOid(11)

\* identifier strings a request may carry
IdInputs ==
    Malformed \cup {IdA, IdAUpper, IdB}
    \cup {StrOid(chapter[i]._id) : i \in DOMAIN chapter}

\* a validated QuizQuestion of a request payload
UserQuestion(cid) ==
    [chapter_id |-> cid, question |-> "user", options |-> <<"yes", "no">>,
     correct_index |-> 0, explanation |-> "why", difficulty |-> "OSN-N"]

\* payload sizes: one, many
BatchSizes == {1, MaxBatch}

AddRequest(p, b, cid, n) ==
    [chapter_id |-> p, payload |-> [chapter_id |-> b, questions |-> [i \in 1..n |-> UserQuestion(cid)]]]

\* add_quiz_questions requests: the path identifier and the QuizCreate payload
AddRequests ==
    \* path and body agree, the questions carry the same identifier
    {AddRequest(p, p, p, n) : p \in IdInputs \ (Malformed \cup {IdAUpper}), n \in BatchSizes}
    \cup {AddRequest(IdAUpper, IdAUpper, IdAUpper, 1), AddRequest(TooShort, TooShort, TooShort, 1)}
    \* an empty payload
    \cup {AddRequest(IdB, IdB, IdB, 0)}
    \* the questions carry another identifier than the path
    \cup {AddRequest(IdA, IdA, IdB, 1)}
    \* path and body differ
    \cup {AddRequest(IdA, IdAUpper, IdA, 1), AddRequest(TooShort, IdA, IdA, 1)}

(***************************************************************************)
(* POST /api/chapters                                                      *)
(***************************************************************************)
CreateChapter ==
    \E body \in ChapterBodies :
        IF ~ChapterCreateValid(body)
        THEN \* request validation fails in the framework
             /\ resp' = Response("create_chapter", body, 422, JNull)
             /\ UNCHANGED <<dbAvail, store, counters>>
        ELSE IF ~ChapterValid(ChapterCreate(body)) \/ ~dbAvail
        THEN \* Chapter(...) or create_document raises inside the handler
             /\ resp' = Response("create_chapter", body, 500, JNull)
             /\ UNCHANGED <<dbAvail, store, counters>>
        ELSE LET r == create_document(chapter, Chapter(ChapterCreate(body)), nextOid)
             IN /\ numCreates < MaxCreates
                /\ chapter' = r.coll
                /\ nextOid' = nextOid + 1
                /\ numCreates' = numCreates + 1
                /\ created' = created \cup {[id |-> r.id, body |-> body]}
                /\ resp' = Response("create_chapter", body, 200, [id |-> r.id])
                /\ UNCHANGED <<dbAvail, quizquestion, numAdds, seedChapters, faults, seedCall>>

(***************************************************************************)
(* GET /api/chapters                                                       *)
(***************************************************************************)
ListChapters ==
    /\ IF ~dbAvail
       THEN resp' = Response("list_chapters", JNull, 500, JNull)
       ELSE LET docs == SortByNumber(get_documents_all(chapter))
            IN resp' = Response("list_chapters", JNull, 200, [i \in 1..Len(docs) |-> to_str_id(docs[i])])
    /\ UNCHANGED <<dbAvail, store, counters>>

(***************************************************************************)
(* GET /api/chapters/{chapter_id}                                          *)
(***************************************************************************)
\* the try block fails: db["chapter"] on None, or ObjectId(chapter_id)
LookupRaises(chapter_id) == ~dbAvail \/ ~ObjectIdValid(chapter_id)

GetChapter ==
    \E chapter_id \in IdInputs :
        /\ IF LookupRaises(chapter_id)
           THEN resp' = Response("get_chapter", chapter_id, 400, JNull)
           ELSE LET doc == FindById(chapter, ObjectId(chapter_id))
                IN IF doc = <<>>
                   THEN resp' = Response("get_chapter", chapter_id, 404, JNull)
                   ELSE resp' = Response("get_chapter", chapter_id, 200, to_str_id(doc[1]))
        /\ UNCHANGED <<dbAvail, store, counters>>

(***************************************************************************)
(* POST /api/chapters/{chapter_id}/quizzes                                 *)
(***************************************************************************)
\* mutant: the chapter is looked up before path and body are compared
AddStatus_LookupFirst(chapter_id, payload) ==
    IF LookupRaises(chapter_id) THEN 400
    ELSE IF FindById(chapter, ObjectId(chapter_id)) = <<>> THEN 404
    ELSE IF chapter_id # payload.chapter_id THEN 400
    ELSE 200

\* the status add_quiz_questions answers with
AddStatus(chapter_id, payload) ==
    IF chapter_id # payload.chapter_id THEN 400
    ELSE IF LookupRaises(chapter_id) THEN 400
    ELSE IF FindById(chapter, ObjectId(chapter_id)) = <<>> THEN 404
    ELSE 200

\* mutant: the questions are inserted before the chapter is found missing
AddPayloads_Early(payload, status) == IF status \in {200, 404} THEN payload.questions ELSE <<>>

\* the documents add_quiz_questions inserts: q.model_dump() for each question,
\* once the checks have passed
AddPayloads(payload, status) == IF status = 200 THEN payload.questions ELSE <<>>

AddQuizQuestions ==
    \E req \in AddRequests :
        LET status == AddStatus(req.chapter_id, req.payload)
            r == create_documents(quizquestion, AddPayloads(req.payload, status), nextOid)
        IN IF status # 200
           THEN /\ resp' = Response("add_quiz_questions", req, status, JNull)
                /\ quizquestion' = r.coll
                /\ nextOid' = nextOid + Len(r.ids)
                /\ UNCHANGED <<dbAvail, chapter, counters>>
           ELSE /\ numAdds < MaxAdds
                /\ quizquestion' = r.coll
                /\ nextOid' = nextOid + Len(r.ids)
                /\ numAdds' = numAdds + 1
                /\ resp' = Response("add_quiz_questions", req, 200,
                                    [inserted |-> Len(r.ids), ids |-> r.ids])
                /\ UNCHANGED <<dbAvail, chapter, numCreates, seedChapters, created, faults, seedCall>>

(***************************************************************************)
(* GET /api/chapters/{chapter_id}/quizzes                                  *)
(***************************************************************************)
GetQuizQuestions ==
    \E chapter_id \in {IdA}, limit \in {1, TargetCount} :
        /\ IF ~dbAvail
           THEN resp' = Response("get_quiz_questions", [chapter_id |-> chapter_id, limit |-> limit], 500, JNull)
           ELSE LET docs == get_documents_by_chapter(quizquestion, chapter_id, limit)
                IN resp' = Response("get_quiz_questions", [chapter_id |-> chapter_id, limit |-> limit], 200,
                                    [i \in 1..Len(docs) |-> to_str_id(docs[i])])
        /\ UNCHANGED <<dbAvail, store, counters>>

(***************************************************************************)
(* POST /api/seed/sample                                                   *)
(***************************************************************************)
\* mutant: the filter is dropped, any chapter matches
IsNumberOne_Any(doc) == TRUE

\* the filter {"number": 1}
IsNumberOne(doc) == doc.number = JInt(1)

\* mutant: the literal list is not sliced
SeedPayloads_NoSlice(existing_q, cid) ==
    IF existing_q < TargetCount THEN SeedQuestions(cid) ELSE <<>>

\* the questions seed_sample inserts when existing_q are stored for cid
SeedPayloads(existing_q, cid) ==
    IF existing_q < TargetCount
    THEN Prefix(SeedQuestions(cid), Max(0, TargetCount - existing_q))
    ELSE <<>>

SeedSample ==
    IF ~dbAvail
    THEN /\ resp' = Response("seed_sample", JNull, 500, JNull)
         /\ UNCHANGED <<dbAvail, store, counters>>
    ELSE LET found == FindOne(SelectSeq(chapter, IsNumberOne))
                new_chapter == create_document(chapter, SeedChapter, nextOid)
                chapters1 == IF found # <<>> THEN chapter ELSE new_chapter.coll
                oid1 == IF found # <<>> THEN nextOid ELSE nextOid + 1
                chapter_doc == IF found # <<>> THEN found[1]
                               ELSE FindById(chapters1, ObjectId(new_chapter.id))[1]
                cid == StrOid(chapter_doc._id)
                existing_q == CountByChapter(quizquestion, cid)
                payloads == SeedPayloads(existing_q, cid)
                r == create_documents(quizquestion, payloads, oid1)
                inserted == Len(r.ids)
            IN /\ chapter' = chapters1
               /\ quizquestion' = r.coll
               /\ nextOid' = oid1 + inserted
               /\ seedChapters' = IF found # <<>> THEN seedChapters ELSE seedChapters + 1
               /\ resp' = Response("seed_sample", JNull, 200,
                                   [chapter_id |-> cid,
                                    chapter_number |-> chapter_doc.number,
                                    chapter_title |-> chapter_doc.title,
                                    existing_questions |-> existing_q,
                                    inserted |-> inserted,
                                    total_now |-> existing_q + inserted])
               /\ UNCHANGED <<dbAvail, numCreates, numAdds, created, faults, seedCall>>

\* the seed_sample calls that may be in progress at once
Calls == {"first", "second"}

\* a call that is not in progress
IdleCall == [pc |-> "idle", chapter_doc |-> JNull, existing_q |-> 0]

Init ==
    /\ dbAvail \in BOOLEAN
    /\ chapter = <<>>
    /\ quizquestion = <<>>
    /\ nextOid = 10
    /\ resp = Response("none", JNull, 0, JNull)
    /\ numCreates = 0
    /\ numAdds = 0
    /\ seedChapters = 0
    /\ created = {}
    /\ faults = 0
    /\ seedCall = [c \in Calls |-> IdleCall]

Next ==
    \/ CreateChapter
    \/ ListChapters
    \/ GetChapter
    \/ AddQuizQuestions
    \/ GetQuizQuestions
    \/ SeedSample

Spec == Init /\ [][Next]_vars

(***************************************************************************)
(* The writing endpoints when create_document raises in mid-call: the      *)
(* exception leaves the handler (no try, no rollback) and is answered 500. *)
(***************************************************************************)
\* the number of inserts of a call that succeed before one raises
FailAfter == {0, 1, MaxBatch - 1}

\* add_quiz_questions whose insert k + 1 raises: the loop of lines 92-95 has
\* stored the first k questions
AddQuizQuestionsFails ==
    \E req \in AddRequests, k \in FailAfter :
        LET status == AddStatus(req.chapter_id, req.payload)
            docs == AddPayloads(req.payload, status)
            r == create_documents(quizquestion, Prefix(docs, k), nextOid)
        IN /\ dbAvail /\ status = 200 /\ k < Len(docs)
           /\ faults < MaxFaults
           /\ quizquestion' = r.coll
           /\ nextOid' = nextOid + Len(r.ids)
           /\ faults' = faults + 1
           /\ resp' = Response("add_quiz_questions", req, 500, JNull)
           /\ UNCHANGED <<dbAvail, chapter, numCreates, numAdds, seedChapters, created, seedCall>>

\* seed_sample whose chapter insert raises (line 149), or whose question
\* insert k + 1 raises (line 457) after the chapter and k questions are stored
SeedSampleFails ==
    \E atChapter \in BOOLEAN, k \in FailAfter :
        LET found == FindOne(SelectSeq(chapter, IsNumberOne))
            new_chapter == create_document(chapter, SeedChapter, nextOid)
            chapters1 == IF found # <<>> THEN chapter ELSE new_chapter.coll
            oid1 == IF found # <<>> THEN nextOid ELSE nextOid + 1
            chapter_doc == IF found # <<>> THEN found[1]
                           ELSE FindById(chapters1, ObjectId(new_chapter.id))[1]
            cid == StrOid(chapter_doc._id)
            existing_q == CountByChapter(quizquestion, cid)
            payloads == SeedPayloads(existing_q, cid)
            r == create_documents(quizquestion, Prefix(payloads, k), oid1)
        IN /\ dbAvail
           /\ faults < MaxFaults
           /\ faults' = faults + 1
           /\ resp' = Response("seed_sample", JNull, 500, JNull)
           /\ IF atChapter
              THEN /\ found = <<>>
                   /\ UNCHANGED <<store, seedChapters>>
              ELSE /\ k < Len(payloads)
                   /\ chapter' = chapters1
                   /\ quizquestion' = r.coll
                   /\ nextOid' = oid1 + Len(r.ids)
                   /\ seedChapters' = IF found # <<>> THEN seedChapters ELSE seedChapters + 1
           /\ UNCHANGED <<dbAvail, numCreates, numAdds, created, seedCall>>

NextFaults ==
    \/ CreateChapter
    \/ AddQuizQuestions
    \/ SeedSample
    \/ AddQuizQuestionsFails
    \/ SeedSampleFails

SpecFaults == Init /\ [][NextFaults]_vars

(***************************************************************************)
(* seed_sample under overlapping requests.  The handler is a plain def,    *)
(* so the framework runs each request on a worker thread; between two      *)
(* store calls of one request another request may run.  A step is one      *)
(* store call together with the local code up to the next one; the insert  *)
(* loop of lines 455-458 is taken as one step (a finer interleaving of two *)
(* loops changes the order of the stored questions, not their number).     *)
(***************************************************************************)
\* lines 114-119: the db check, then find_one({"number": 1})
SeedFind(c) ==
    /\ seedCall[c].pc = "idle"
    /\ IF ~dbAvail
       THEN /\ resp' = Response("seed_sample", JNull, 500, JNull)
            /\ UNCHANGED seedCall
       ELSE LET found == FindOne(SelectSeq(chapter, IsNumberOne))
            IN /\ seedCall' = [seedCall EXCEPT ![c] =
                                  IF found # <<>>
                                  THEN [pc |-> "count", chapter_doc |-> found[1], existing_q |-> 0]
                                  ELSE [pc |-> "create", chapter_doc |-> JNull, existing_q |-> 0]]
               /\ UNCHANGED resp
    /\ UNCHANGED <<dbAvail, store, numCreates, numAdds, seedChapters, created, faults>>

\* lines 122-150: the chapter is inserted and read back by its id
SeedCreate(c) ==
    /\ seedCall[c].pc = "create"
    /\ LET new_chapter == create_document(chapter, SeedChapter, nextOid)
           chapter_doc == FindById(new_chapter.coll, ObjectId(new_chapter.id))[1]
       IN /\ chapter' = new_chapter.coll
          /\ nextOid' = nextOid + 1
          /\ seedChapters' = seedChapters + 1
          /\ seedCall' = [seedCall EXCEPT ![c] =
                             [pc |-> "count", chapter_doc |-> chapter_doc, existing_q |-> 0]]
    /\ UNCHANGED <<dbAvail, quizquestion, resp, numCreates, numAdds, created, faults>>

\* line 153: count_documents({"chapter_id": str(chapter_doc["_id"])})
SeedCount(c) ==
    /\ seedCall[c].pc = "count"
    /\ seedCall' = [seedCall EXCEPT ![c] =
                       [pc |-> "insert", chapter_doc |-> seedCall[c].chapter_doc,
                        existing_q |-> CountByChapter(quizquestion, StrOid(seedCall[c].chapter_doc._id))]]
    /\ UNCHANGED <<dbAvail, store, resp, numCreates, numAdds, seedChapters, created, faults>>

\* mutant: the count is read again when the inserts start
ExistingQ_Fresh(c) == CountByChapter(quizquestion, StrOid(seedCall[c].chapter_doc._id))

\* the local existing_q of call c, as line 153 left it
ExistingQ(c) == seedCall[c].existing_q

\* lines 158-475: the payloads are cut from the count read before, inserted,
\* and the response is built
SeedInsert(c) ==
    /\ seedCall[c].pc = "insert"
    /\ LET chapter_doc == seedCall[c].chapter_doc
           existing_q == ExistingQ(c)
           cid == StrOid(chapter_doc._id)
           r == create_documents(quizquestion, SeedPayloads(existing_q, cid), nextOid)
           inserted == Len(r.ids)
       IN /\ quizquestion' = r.coll
          /\ nextOid' = nextOid + inserted
          /\ resp' = Response("seed_sample", JNull, 200,
                              [chapter_id |-> cid,
                               chapter_number |-> chapter_doc.number,
                               chapter_title |-> chapter_doc.title,
                               existing_questions |-> existing_q,
                               inserted |-> inserted,
                               total_now |-> existing_q + inserted])
    /\ seedCall' = [seedCall EXCEPT ![c] = IdleCall]
    /\ UNCHANGED <<dbAvail, chapter, numCreates, numAdds, seedChapters, created, faults>>

NextConcurrent ==
    \E c \in Calls :
        \/ SeedFind(c)
        \/ SeedCreate(c)
        \/ SeedCount(c)
        \/ SeedInsert(c)

SpecConcurrent == Init /\ [][NextConcurrent]_vars

(***************************************************************************)
(* Properties.  Their helpers are written apart from the operators of the  *)
(* model above.                                                            *)
(***************************************************************************)
\* the number of questions of a collection that carry the chapter identifier cid
QuestionsFor(coll, cid) == Cardinality({i \in DOMAIN coll : coll[i].chapter_id = cid})

\* the positions of the chapters numbered 1
NumberOnes(coll) == {i \in DOMAIN coll : coll[i].number.int = 1}

IsPrefixOf(a, b) == Len(a) <= Len(b) /\ \A i \in DOMAIN a : b[i] = a[i]

\* this step is a seed_sample call answered with the store connected
SeedStep == dbAvail /\ resp'.op = "seed_sample"

\* C1: from an empty store, the first seed_sample call inserts exactly one
\* chapter, numbered 1, and exactly 20 questions tagged with its id; a second
\* call, with no other call in between, inserts no chapter and no question and
\* reports existing_questions = 20 and inserted = 0.
C1_SeedTwice ==
    [][(SeedStep /\ numCreates = 0 /\ numAdds = 0) =>
          IF chapter = <<>> /\ quizquestion = <<>>
          THEN /\ Len(chapter') = 1
               /\ chapter'[1].number.int = 1
               /\ Len(quizquestion') = 20
               /\ \A i \in DOMAIN quizquestion' : quizquestion'[i].chapter_id = StrOid(chapter'[1]._id)
               /\ resp'.status = 200
               /\ resp'.body.existing_questions = 0
               /\ resp'.body.inserted = 20
          ELSE /\ chapter' = chapter
               /\ quizquestion' = quizquestion
               /\ resp'.status = 200
               /\ resp'.body.existing_questions = 20
               /\ resp'.body.inserted = 0]_vars

\* C1 witness: the second seed_sample call on a store only seed_sample wrote
C1_Witness ==
    /\ dbAvail /\ numCreates = 0 /\ numAdds = 0
    /\ resp.op = "seed_sample" /\ resp.status = 200
    /\ resp.body.existing_questions = 20 /\ resp.body.inserted = 0
    /\ Len(chapter) = 1 /\ Len(quizquestion) = 20

\* C2: a seed_sample call that starts with k questions stored for the number-1
\* chapter inserts exactly max(0, 20 - k) questions, reports existing_questions
\* = k, inserted = max(0, 20 - k) and total_now = k + inserted, and total_now is
\* the number of questions stored for that chapter afterwards (20 when k < 20).
C2_SeedTopUp ==
    [][SeedStep =>
          LET ones == NumberOnes(chapter')
              first == CHOOSE i \in ones : \A j \in ones : i <= j
              cid == resp'.body.chapter_id
              k == resp'.body.existing_questions
              ins == resp'.body.inserted
          IN /\ ones # {}
             /\ resp'.status = 200
             /\ cid = StrOid(chapter'[first]._id)
             /\ k = QuestionsFor(quizquestion, cid)
             /\ ins = (IF k >= 20 THEN 0 ELSE 20 - k)
             /\ IsPrefixOf(quizquestion, quizquestion')
             /\ Len(quizquestion') = Len(quizquestion) + ins
             /\ QuestionsFor(quizquestion', cid) = k + ins
             /\ resp'.body.total_now = k + ins
             /\ k < 20 => resp'.body.total_now = 20]_vars

\* C2 witness: seed_sample found 5 questions and inserted 15
C2_Witness ==
    /\ dbAvail /\ resp.op = "seed_sample" /\ resp.status = 200
    /\ resp.body.existing_questions = 5 /\ resp.body.inserted = 15 /\ resp.body.total_now = 20
    /\ QuestionsFor(quizquestion, resp.body.chapter_id) = 20

\* C3: seed_sample inserts a chapter only when no stored chapter has number 1,
\* and otherwise answers with the id of a stored number-1 chapter; over a whole
\* run of seed_sample, create_chapter and add_quiz_questions calls it inserts at
\* most one chapter.
C3_SeedChapterOnce ==
    [][SeedStep =>
          /\ IF NumberOnes(chapter) # {}
             THEN /\ chapter' = chapter
                  /\ seedChapters' = seedChapters
                  /\ \E i \in NumberOnes(chapter) : resp'.body.chapter_id = StrOid(chapter[i]._id)
             ELSE /\ Len(chapter') = Len(chapter) + 1
                  /\ IsPrefixOf(chapter, chapter')
                  /\ chapter'[Len(chapter')].number.int = 1
                  /\ resp'.body.chapter_id = StrOid(chapter'[Len(chapter')]._id)
                  /\ seedChapters' = seedChapters + 1
          /\ seedChapters' <= 1]_vars

\* C3 witness: seed_sample reused a chapter numbered 1 that create_chapter stored
C3_Witness ==
    /\ dbAvail /\ resp.op = "seed_sample" /\ resp.status = 200
    /\ seedChapters = 0 /\ numCreates = 1
    /\ \E i \in DOMAIN chapter : chapter[i].number.int = 1 /\ resp.body.chapter_id = StrOid(chapter[i]._id)

\* the characters of a well-formed identifier
HexAlphabet ==
    {"0", "1", "2", "3", "4", "5", "6", "7", "8", "9",
     "a", "b", "c", "d", "e", "f", "A", "B", "C", "D", "E", "F"}

\* s is a well-formed store identifier: 24 hexadecimal characters
WellFormedId(s) == Len(s) = 24 /\ \A i \in 1..Len(s) : s[i] \in HexAlphabet

\* s names, in either case, the identifier of a stored chapter
RefersToChapter(s) == \E i \in DOMAIN chapter : Upper(s) = Upper(StrOid(chapter[i]._id))

\* C4: get_chapter answers every chapter_id that is not a well-formed store
\* identifier with 400, whatever the store holds.
C4_MalformedIs400 ==
    (resp.op = "get_chapter" /\ ~WellFormedId(resp.req)) => resp.status = 400

\* C4 witness: a 24-character identifier with a non-hexadecimal character, asked
\* of a connected store that holds chapters
C4_Witness ==
    /\ dbAvail /\ chapter # <<>>
    /\ resp.op = "get_chapter" /\ Len(resp.req) = 24 /\ ~WellFormedId(resp.req)
    /\ resp.status = 400

\* C5: with the store connected, get_chapter answers a well-formed chapter_id
\* that refers to no stored chapter with 404.
C5_AbsentIs404 ==
    (dbAvail /\ resp.op = "get_chapter" /\ WellFormedId(resp.req) /\ ~RefersToChapter(resp.req))
        => resp.status = 404

\* C5 witness: a well-formed identifier of no chapter, asked of a store that
\* holds chapters
C5_Witness ==
    /\ dbAvail /\ chapter # <<>>
    /\ resp.op = "get_chapter" /\ WellFormedId(resp.req) /\ ~RefersToChapter(resp.req)
    /\ resp.status = 404

\* this step is an add_quiz_questions call
AddStep == resp'.op = "add_quiz_questions"

\* C6: with the store connected, add_quiz_questions with a well-formed chapter
\* identifier, equal to the body's, that refers to no stored chapter answers 404
\* and leaves the quizquestion collection as it was, whatever the payload holds.
C6_AbsentChapterNoInsert ==
    [][(/\ AddStep /\ dbAvail
        /\ resp'.req.chapter_id = resp'.req.payload.chapter_id
        /\ WellFormedId(resp'.req.chapter_id)
        /\ ~RefersToChapter(resp'.req.chapter_id))
          => (resp'.status = 404 /\ quizquestion' = quizquestion /\ chapter' = chapter)]_vars

\* C6 witness: a payload of MaxBatch questions for a missing chapter, while other
\* chapters are stored
C6_Witness ==
    /\ dbAvail /\ chapter # <<>>
    /\ resp.op = "add_quiz_questions" /\ resp.status = 404
    /\ Len(resp.req.payload.questions) = MaxBatch

\* C7: add_quiz_questions answers 400 and inserts nothing whenever the path
\* chapter_id differs from the body's or is not a well-formed identifier; a
\* mismatch is answered 400 even where the lookup would find no chapter.
C7_MismatchOrMalformedIs400 ==
    [][(/\ AddStep
        /\ \/ resp'.req.chapter_id # resp'.req.payload.chapter_id
           \/ ~WellFormedId(resp'.req.chapter_id))
          => (resp'.status = 400 /\ quizquestion' = quizquestion /\ chapter' = chapter)]_vars

\* C7 witness: path and body differ, the path is well formed and names no chapter
C7_Witness ==
    /\ dbAvail
    /\ resp.op = "add_quiz_questions" /\ resp.status = 400
    /\ resp.req.chapter_id # resp.req.payload.chapter_id
    /\ WellFormedId(resp.req.chapter_id) /\ ~RefersToChapter(resp.req.chapter_id)

\* the fields of a chapter document, _id aside
ChapterFields == {"number", "title", "summary", "objectives", "reference", "sections"}

\* the position in the store of the chapter a listed document shows
StorePosition(listed) == CHOOSE i \in DOMAIN chapter : StrOid(chapter[i]._id) = listed.id

\* C8: with the store connected, list_chapters returns every stored chapter
\* once, ordered non-decreasing by number, chapters of equal number in the
\* order of the store.
C8_ListSorted ==
    (dbAvail /\ resp.op = "list_chapters") =>
        /\ resp.status = 200
        /\ Len(resp.body) = Len(chapter)
        /\ \A j \in DOMAIN resp.body :
              /\ "id" \in DOMAIN resp.body[j]
              /\ \E i \in DOMAIN chapter :
                    /\ StrOid(chapter[i]._id) = resp.body[j].id
                    /\ \A f \in ChapterFields : resp.body[j][f] = chapter[i][f]
        /\ \A j, k \in DOMAIN resp.body :
              j < k =>
                 /\ resp.body[j].id # resp.body[k].id
                 /\ resp.body[j].number.int <= resp.body[k].number.int
                 /\ resp.body[j].number.int = resp.body[k].number.int
                       => StorePosition(resp.body[j]) < StorePosition(resp.body[k])

\* C8 witness: the store holds a chapter of greater number before one of smaller
C8_Witness ==
    /\ dbAvail /\ resp.op = "list_chapters" /\ resp.status = 200
    /\ \E i, j \in DOMAIN chapter : i < j /\ chapter[i].number.int > chapter[j].number.int

\* the value a field of a chapter takes when the request leaves it out
FieldDefault(f) == IF f = "reference" THEN [t |-> "null"] ELSE [t |-> "list", list |-> <<>>]

\* C9: get_chapter on an id that create_chapter returned, whatever calls came
\* in between, answers 200 with a document that holds the fields of the request
\* body (an omitted optional field at its default) and the id as a string.
C9_CreateThenGet ==
    \A c \in created :
        (resp.op = "get_chapter" /\ resp.req = c.id) =>
            /\ resp.status = 200
            /\ DOMAIN resp.body = ChapterFields \cup {"id"}
            /\ resp.body.id = c.id
            /\ \A f \in ChapterFields :
                  resp.body[f] = IF f \in DOMAIN c.body THEN c.body[f] ELSE FieldDefault(f)

\* C9 witness: the chapter is read back after seed_sample stored a chapter and
\* questions behind it
C9_Witness ==
    /\ seedChapters = 1 /\ quizquestion # <<>>
    /\ \E c \in created :
          /\ resp.op = "get_chapter" /\ resp.req = c.id /\ resp.status = 200
          /\ "reference" \in DOMAIN c.body

\* the body breaks the Chapter schema: a required field is missing or of the
\* wrong type, or number is below 1
ViolatesChapterSchema(body) ==
    \/ \E f \in {"number", "title", "summary"} : f \notin DOMAIN body
    \/ body.number.t # "int"
    \/ body.title.t # "str"
    \/ body.summary.t # "str"
    \/ body.number.int < 1

\* C10: POST /api/chapters with a body that breaks the Chapter schema is
\* answered 422 and inserts no chapter (stated for a connected store).
C10_InvalidIs422 ==
    [][(dbAvail /\ resp'.op = "create_chapter" /\ ViolatesChapterSchema(resp'.req))
          => (resp'.status = 422 /\ chapter' = chapter)]_vars

\* the answered call reaches the store: seed_sample, or get_chapter and
\* add_quiz_questions (path and body agreeing) with a well-formed identifier
ReachesStore(r) ==
    \/ r.op = "seed_sample"
    \/ r.op = "get_chapter" /\ WellFormedId(r.req)
    \/ /\ r.op = "add_quiz_questions"
       /\ r.req.chapter_id = r.req.payload.chapter_id
       /\ WellFormedId(r.req.chapter_id)

\* C11: when the store connection was never established (db is None),
\* get_chapter, add_quiz_questions and seed_sample answer 500, not 400 or 404,
\* and change no stored state.
C11_DbNoneIs500 ==
    [][(~dbAvail /\ ReachesStore(resp'))
          => (resp'.status = 500 /\ chapter' = chapter /\ quizquestion' = quizquestion)]_vars

\* C12: an add_quiz_questions or seed_sample call that fails because one of its
\* store inserts fails (answered 500 with the store connected) stores none of
\* its documents: both collections are as before the call.
C12_AllOrNothing ==
    [][(/\ dbAvail
        /\ resp'.op \in {"add_quiz_questions", "seed_sample"}
        /\ resp'.status = 500)
          => (chapter' = chapter /\ quizquestion' = quizquestion)]_vars

\* C13: seed_sample calls whose steps interleave can over-insert.  Each call
\* inserts up to 20 from the count it read, so its insert loop brings the
\* questions of its chapter above 20 exactly when another call inserted
\* between its count and its inserts; and a call inserts a second chapter
\* numbered 1 exactly when another call inserted one between its lookup and
\* its insert.  Both happen (the witness).
C13_SeedRace ==
    [][\A c \in Calls :
          /\ (seedCall[c].pc = "insert" /\ seedCall'[c].pc = "idle") =>
                LET cid == StrOid(seedCall[c].chapter_doc._id)
                    read == seedCall[c].existing_q
                    before == QuestionsFor(quizquestion, cid)
                    after == QuestionsFor(quizquestion', cid)
                IN /\ IsPrefixOf(quizquestion, quizquestion')
                   /\ after = before + (IF read >= 20 THEN 0 ELSE 20 - read)
                   /\ Len(quizquestion') - Len(quizquestion) = after - before
                   /\ (after > before /\ after > 20) <=> (read < 20 /\ read < before)
          /\ (seedCall[c].pc = "create" /\ seedCall'[c].pc = "count") =>
                /\ Len(chapter') = Len(chapter) + 1
                /\ IsPrefixOf(chapter, chapter')
                /\ chapter'[Len(chapter')].number.int = 1
                /\ Cardinality(NumberOnes(chapter')) > 1 <=> NumberOnes(chapter) # {}]_vars

\* C13 witness: two chapters numbered 1 are stored and the first holds more
\* than 20 seeded questions, every call having answered
C13_Witness ==
    /\ \A c \in Calls : seedCall[c].pc = "idle"
    /\ resp.op = "seed_sample" /\ resp.status = 200
    /\ Cardinality(NumberOnes(chapter)) = 2
    /\ \E i \in NumberOnes(chapter) : QuestionsFor(quizquestion, StrOid(chapter[i]._id)) > 20

ReadOps == {"list_chapters", "get_chapter", "get_quiz_questions"}

\* C15: no call updates or deletes a stored document: after every step each
\* collection still starts with the documents it held, identifiers and field
\* values unchanged, and list_chapters, get_chapter and get_quiz_questions
\* leave both collections as they were.
C15_InsertOnly ==
    [][/\ IsPrefixOf(chapter, chapter')
       /\ IsPrefixOf(quizquestion, quizquestion')
       /\ resp'.op \in ReadOps => (chapter' = chapter /\ quizquestion' = quizquestion)]_vars

\* C15 witness: get_quiz_questions answers with stored questions after
\* create_chapter, seed_sample and add_quiz_questions have all inserted
C15_Witness ==
    /\ dbAvail /\ numCreates = 1 /\ numAdds = 1 /\ seedChapters = 1
    /\ Len(chapter) = 2 /\ Len(quizquestion) > 20
    /\ resp.op = "get_quiz_questions" /\ resp.status = 200 /\ Len(resp.body) > 0
====
